---- MODULE Spec2Model ----
(***************************************************************************)
(* Recon Assistant (src/index.js, second program of the file): the         *)
(* reaction_added -> Pipedrive note pipeline, modelled as one asynchronous *)
(* task per event.  Every `await` of the handler is a suspension point:    *)
(* the code between two awaits is one atomic action, and the settlement of *)
(* the awaited call (with its outcome) is the input of the next action.    *)
(*                                                                         *)
(* Strings are sequences of tokens (a token is one character, or one       *)
(* literal piece of a template), so concatenation and substring search     *)
(* are computed, not assumed.                                              *)
(***************************************************************************)
EXTENDS Integers, Sequences, FiniteSets, TLC

(* ----------------------------- bounds ---------------------------------- *)
\* number of reaction_added events delivered (one handler run each)
MaxRuns == 2
\* number of times the wall clock is advanced
MaxTicks == 1

(* ------------------------ program constants ---------------------------- *)
\* recentlyNoted's default window: ms = 5 * 60 * 1000
WINDOW_MS == 300000

\* faulty variant: the accepted set also admits a non-checkmark reaction
PD_NOTE_REACTIONS_Wide ==
  {"white_check_mark", "heavy_check_mark", "ballot_box_with_check", "eyes"}

PD_NOTE_REACTIONS == {"white_check_mark", "heavy_check_mark", "ballot_box_with_check"}

(* ------------------------- the environment ----------------------------- *)
Runs == 1..MaxRuns

\* a value for "absent" (undefined / null) event fields
None == "none"

\* Slack channels of the workspace: id -> name
ChannelNames ==
  [ C1 |-> <<"r","c","n","-","D","e","a","l","4","2">>,
    C2 |-> <<"g","e","n","e","r","a","l">> ]
Channels == DOMAIN ChannelNames

\* message timestamps (Slack's ts strings, ordered)
TsSet == {1, 2}

NoFiles == <<>>
\* the messages ever posted; user "" is a message without a user (bot post)
Messages ==
  [ C1 |-> [ t \in TsSet |->
              IF t = 1
              THEN [ts |-> 1, user |-> "U1", text |-> <<"o","k">>, files |-> NoFiles]
              ELSE [ts |-> 2, user |-> "", text |-> <<>>,
                    files |-> << [name |-> <<"a.pdf">>, filetype |-> <<"pdf">>],
                                 [name |-> <<"b.png">>, filetype |-> <<"png">>] >>] ],
    C2 |-> [ t \in TsSet |->
              [ts |-> t, user |-> "U1", text |-> <<"h","i">>, files |-> NoFiles] ] ]

\* the messages in the channel histories at start-up
InitialMessages == {<<"C1", 1>>, <<"C1", 2>>}

\* users.info payloads: user.real_name and user.profile.display_name
Profiles ==
  [ U1 |-> [found |-> TRUE, real_name_normalized |-> <<"Alice">>, real_name |-> <<"Alice">>,
            display_name |-> <<"al">>, name |-> <<"alice88">>],
    U2 |-> [found |-> TRUE, real_name_normalized |-> <<>>, real_name |-> <<>>,
            display_name |-> <<"bob">>, name |-> <<"bob7">>] ]

\* the value of a users.info call that failed (.catch(() => null)) or was not made
NoInfo ==
  [found |-> FALSE, real_name_normalized |-> <<>>, real_name |-> <<>>,
   display_name |-> <<>>, name |-> <<>>]

\* the accepted reaction names as documented (the three check-mark emoji)
CheckmarkNames == {"white_check_mark", "heavy_check_mark", "ballot_box_with_check"}

\* event inputs
Reactions == CheckmarkNames \cup {"eyes"}
\* event.item: {channel, ts}, either of which may be missing
EventItems == {<<"C1", 1>>, <<"C1", 2>>, <<"C2", 1>>, <<None, 1>>, <<"C1", 0>>}
Reactors == {"U2"}

\* steps by which the clock advances: just inside and exactly at the window
TickSteps == {WINDOW_MS - 1, WINDOW_MS}

(* --------------------------- pure helpers ------------------------------ *)
IsDigit(c) == c \in {"0","1","2","3","4","5","6","7","8","9"}

\* String.prototype.toLowerCase / the regex i flag, per character
Lower(c) ==
  CASE c = "D" -> "d" [] c = "E" -> "e" [] c = "A" -> "a" [] c = "L" -> "l"
    [] c = "R" -> "r" [] c = "C" -> "c" [] c = "N" -> "n" [] OTHER -> c

\* "deal" (any case) followed by a digit, starting at position i
DealAt(s, i) ==
  /\ i + 4 <= Len(s)
  /\ Lower(s[i]) = "d" /\ Lower(s[i+1]) = "e"
  /\ Lower(s[i+2]) = "a" /\ Lower(s[i+3]) = "l"
  /\ IsDigit(s[i+4])

\* last index of the digit run that starts at j (greedy \d+)
RECURSIVE DigitRunEnd(_, _)
DigitRunEnd(s, j) ==
  IF j + 1 <= Len(s) /\ IsDigit(s[j+1]) THEN DigitRunEnd(s, j + 1) ELSE j

\* null result of a failed match
NoDeal == <<>>

\* faulty variant: a name without deal### yields a default id instead of null
extractDealIdFromChannelName_Default(name) ==
  LET starts == {i \in 1..Len(name) : DealAt(name, i)}
  IN IF starts = {} THEN <<"0">>
     ELSE LET i == CHOOSE k \in starts : \A m \in starts : k <= m
          IN SubSeq(name, i + 4, DigitRunEnd(name, i + 4))

\* extractDealIdFromChannelName of the second program: /deal(\d+)/i
extractDealIdFromChannelName(name) ==
  LET starts == {i \in 1..Len(name) : DealAt(name, i)}
  IN IF starts = {} THEN NoDeal
     ELSE LET i == CHOOSE k \in starts : \A m \in starts : k <= m
          IN SubSeq(name, i + 4, DigitRunEnd(name, i + 4))

DigitVal(c) ==
  CASE c = "0" -> 0 [] c = "1" -> 1 [] c = "2" -> 2 [] c = "3" -> 3 [] c = "4" -> 4
    [] c = "5" -> 5 [] c = "6" -> 6 [] c = "7" -> 7 [] c = "8" -> 8 [] c = "9" -> 9

\* Number(dealId) on a digit string
RECURSIVE NumberOf(_)
NumberOf(d) ==
  IF d = <<>> THEN 0 ELSE 10 * NumberOf(SubSeq(d, 1, Len(d) - 1)) + DigitVal(d[Len(d)])

\* Array.prototype.join
RECURSIVE JoinWith(_, _)
JoinWith(list, sep) ==
  IF list = <<>> THEN <<>>
  ELSE IF Len(list) = 1 THEN list[1]
  ELSE list[1] \o sep \o JoinWith(Tail(list), sep)

\* the attachmentsList entry of one file: `${f.name} (${f.filetype})`
AttachmentEntry(f) == f.name \o <<" (">> \o f.filetype \o <<")">>

attachmentsListOf(files) == [i \in 1..Len(files) |-> AttachmentEntry(files[i])]

buildNoteFromSlack_AlwaysBlock(channelName, reactorName, authorName, permalink, text, attachmentsList) ==
  LET filesLine == <<"\n", "\n", "Attachments:", "\n", "- ">>
                   \o JoinWith(attachmentsList, <<"\n", "- ">>)
      linkLine == IF permalink # <<>>
                  THEN <<"\n", "\n", "Slack link: ">> \o permalink
                  ELSE <<>>
  IN <<"Slack note from #">> \o channelName \o <<"\n">>
     \o <<"Author: ">> \o authorName \o <<"\n">>
     \o <<"Approved by: ">> \o reactorName \o <<"\n", "\n">>
     \o <<"Message:", "\n">> \o (IF text # <<>> THEN text ELSE <<"(no text)">>)
     \o filesLine \o linkLine

buildNoteFromSlack_NoPlaceholder(channelName, reactorName, authorName, permalink, text, attachmentsList) ==
  LET filesLine == IF Len(attachmentsList) > 0
                   THEN <<"\n", "\n", "Attachments:", "\n", "- ">>
                        \o JoinWith(attachmentsList, <<"\n", "- ">>)
                   ELSE <<>>
      linkLine == IF permalink # <<>>
                  THEN <<"\n", "\n", "Slack link: ">> \o permalink
                  ELSE <<>>
  IN <<"Slack note from #">> \o channelName \o <<"\n">>
     \o <<"Author: ">> \o authorName \o <<"\n">>
     \o <<"Approved by: ">> \o reactorName \o <<"\n", "\n">>
     \o <<"Message:", "\n">> \o text
     \o filesLine \o linkLine

buildNoteFromSlack(channelName, reactorName, authorName, permalink, text, attachmentsList) ==
  LET filesLine == IF Len(attachmentsList) > 0
                   THEN <<"\n", "\n", "Attachments:", "\n", "- ">>
                        \o JoinWith(attachmentsList, <<"\n", "- ">>)
                   ELSE <<>>
      linkLine == IF permalink # <<>>
                  THEN <<"\n", "\n", "Slack link: ">> \o permalink
                  ELSE <<>>
  IN <<"Slack note from #">> \o channelName \o <<"\n">>
     \o <<"Author: ">> \o authorName \o <<"\n">>
     \o <<"Approved by: ">> \o reactorName \o <<"\n", "\n">>
     \o <<"Message:", "\n">> \o (IF text # <<>> THEN text ELSE <<"(no text)">>)
     \o filesLine \o linkLine

\* chat.getPermalink's URL for a message
PermalinkOf(channelId, ts) == <<"https://slack/archives/", channelId, "/p", ToString(ts)>>

(* ------------------------------ state ---------------------------------- *)
VARIABLES
  run,          \* run[r]: the state of handler run r (one per delivered event)
  noteDedupe,   \* the Map noteDedupe: cacheKey -> Date.now() of the mark
  now,          \* Date.now()
  ticks,        \* how often the clock has been advanced
  present,      \* the <<channel, ts>> of the messages still in the channel history
  tmpFiles,     \* the temp files on disk: <<run, file index>>
  cfg,          \* the environment toggles read at start-up
  join,         \* the run of a member_joined_channel handler
  pure          \* the last application of one of the pure helpers: input and result

vars == <<run, noteDedupe, now, ticks, present, tmpFiles, cfg, join, pure>>

\* a member_joined_channel handler before its event is delivered
JoinIdle ==
  [ pc |-> "idle", exit |-> "", variant |-> 0, channel |-> "none", user |-> "none",
    bot |-> "none", name |-> <<>>, dealId |-> <<>>, pmSlack |-> FALSE,
    entry |-> "", linkRes |-> "", calls |-> <<>>, posts |-> <<>> ]

\* no pure helper applied yet
NotApplied == [fn |-> "none"]

\* a handler run before its event is delivered
IdleRun ==
  [ pc |-> "idle", exit |-> "",
    channel |-> None, ts |-> 0, user |-> None, checkmark |-> FALSE,
    channelName |-> <<>>, dealId |-> NoDeal, msgTs |-> 0,
    author |-> "none", reactor |-> "none", link |-> "none",
    authorName |-> <<>>, reactorName |-> <<>>, permalink |-> <<>>,
    fileIdx |-> 0, unlinkTried |-> {}, attempts |-> <<>>,
    calls |-> <<>>, noteReq |-> <<>>, replies |-> <<>>,
    \* what the environment answered, and when the run started and marked
    infoRes |-> "", histRes |-> "", noteRes |-> "",
    alone |-> FALSE, startT |-> 0, markT |-> 0 ]

Init ==
  /\ run = [r \in Runs |-> IdleRun]
  /\ noteDedupe = <<>>
  /\ now = 1
  /\ ticks = 0
  /\ present = InitialMessages
  /\ tmpFiles = {}
  /\ cfg \in [ENABLE_REACTION_TO_PD_NOTE : BOOLEAN, REACTION_UPLOAD_FILES : {FALSE}]
  /\ join = JoinIdle
  /\ pure = NotApplied

\* start-up with REACTION_UPLOAD_FILES=true
InitUpload ==
  /\ run = [r \in Runs |-> IdleRun]
  /\ noteDedupe = <<>>
  /\ now = 1
  /\ ticks = 0
  /\ present = InitialMessages
  /\ tmpFiles = {}
  /\ cfg = [ENABLE_REACTION_TO_PD_NOTE |-> TRUE, REACTION_UPLOAD_FILES |-> TRUE]
  /\ join = JoinIdle
  /\ pure = NotApplied

InFlight(r) == run[r].pc \notin {"idle", "done"}

\* const cacheKey = `${channelId}:${ts}`
cacheKey(channelId, ts) == <<channelId, ":", ToString(ts)>>

\* faulty variant: an entry exactly one window old still matches
recentlyNoted_Inclusive(key) ==
  /\ key \in DOMAIN noteDedupe
  /\ noteDedupe[key] # 0
  /\ now - noteDedupe[key] <= WINDOW_MS

\* faulty variant: the window comparison is inverted
recentlyNoted_Inverted(key) ==
  /\ key \in DOMAIN noteDedupe
  /\ noteDedupe[key] # 0
  /\ now - noteDedupe[key] > WINDOW_MS

\* recentlyNoted(key, ms = 5 * 60 * 1000): t && Date.now() - t < ms
recentlyNoted(key) ==
  /\ key \in DOMAIN noteDedupe
  /\ noteDedupe[key] # 0
  /\ now - noteDedupe[key] < WINDOW_MS

\* faulty variant: the success branch forgets to write the entry
DedupeSet_Skip(key) == noteDedupe

\* noteDedupe.set(key, Date.now())
DedupeSet(key) ==
  [k \in DOMAIN noteDedupe \cup {key} |-> IF k = key THEN now ELSE noteDedupe[k]]

\* issuing an API call (a request leaves the process)
Call(rec, name) == [rec EXCEPT !.calls = Append(@, name)]

\* the handler's locals that are dead once pdPost has settled (or the handler
\* has returned), and the request payload that was in flight
Forget(rec) ==
  [rec EXCEPT !.msgTs = 0, !.author = "none", !.reactor = "none", !.link = "none",
              !.authorName = <<>>, !.reactorName = <<>>, !.permalink = <<>>,
              !.fileIdx = 0, !.noteReq = <<>>]

\* return from the handler
Return(rec, why) == [Forget(rec) EXCEPT !.pc = "done", !.exit = why,
                                        !.channelName = <<>>, !.dealId = NoDeal]

\* postThreadHelp(client, channelId, ts, text): await client.chat.postMessage
postThreadHelp(rec, kind) ==
  [ Call(rec, "chat.postMessage") EXCEPT
      !.pc = "reply",
      !.replies = Append(@, [kind |-> kind, channel |-> rec.channel,
                             thread_ts |-> rec.ts, deal |-> rec.dealId]) ]

\* conversations.history({channel, latest: ts, inclusive: true, limit: 1}):
\* the newest message of the channel that is not later than `latest`
HistoryLookup(channelId, latest) ==
  LET upTo == {t \in TsSet : <<channelId, t>> \in present /\ t <= latest}
  IN IF upTo = {} THEN 0 ELSE CHOOSE t \in upTo : \A u \in upTo : u <= t

MsgOf(rec) == Messages[rec.channel][rec.msgTs]

(* --------------------- the reaction_added handler ---------------------- *)
\* lines 730-753: the filter, the dedupe check, and the first await
ReactionAdded(r, reaction, channelId, ts, user) ==
  /\ run[r].pc = "idle"
  /\ IF r = 1 THEN TRUE ELSE run[r - 1].pc # "idle"
  \* the model follows the overlap of handler runs pairwise
  /\ \A q1, q2 \in Runs : InFlight(q1) /\ InFlight(q2) => q1 = q2
  /\ LET rec == [run[r] EXCEPT
                   !.channel = channelId, !.ts = ts, !.user = user,
                   !.checkmark = reaction \in CheckmarkNames, !.startT = now,
                   !.alone = \A q \in Runs \ {r} :
                                InFlight(q) =>
                                  ~(run[q].channel = channelId /\ run[q].ts = ts)]
     IN run' = [run EXCEPT ![r] =
          IF ~cfg.ENABLE_REACTION_TO_PD_NOTE
          THEN Return([run[r] EXCEPT !.checkmark = rec.checkmark], "disabled")
          ELSE IF channelId = None \/ ts = 0 THEN Return(rec, "no_item")
          ELSE IF reaction \notin PD_NOTE_REACTIONS THEN Return(rec, "filtered")
          ELSE IF recentlyNoted(cacheKey(channelId, ts)) THEN Return(rec, "dedupe")
          ELSE [Call(rec, "conversations.info") EXCEPT !.pc = "info"]]
  /\ UNCHANGED <<noteDedupe, now, ticks, present, tmpFiles, cfg, join, pure>>

\* faulty variant: the catch of conversations.info tries the lookup again
InfoFailed_Retry(rec) == [Call(rec, "conversations.info") EXCEPT !.pc = "info"]

\* faulty variant: the catch of conversations.info returns without a reply
InfoFailed_Silent(rec) == Return(rec, "channel_info_error")

\* lines 755-763: the catch of the channel lookup
InfoFailed(rec) == postThreadHelp(rec, "channel_info_error")

\* lines 753-786: conversations.info settles; resolve the deal id
InfoSettle(r, ok) ==
  /\ run[r].pc = "info"
  /\ LET rec == [run[r] EXCEPT !.infoRes = IF ok THEN "ok" ELSE "fail"]
         named == [rec EXCEPT !.channelName = ChannelNames[rec.channel],
                              !.dealId = extractDealIdFromChannelName(ChannelNames[rec.channel])]
     IN run' = [run EXCEPT ![r] =
          IF ~ok THEN InfoFailed(rec)
          ELSE IF named.dealId = NoDeal THEN postThreadHelp(named, "need_deal")
          ELSE [Call(named, "conversations.history") EXCEPT !.pc = "hist"]]
  /\ UNCHANGED <<noteDedupe, now, ticks, present, tmpFiles, cfg, join, pure>>

\* postThreadHelp's await settles (a failure is caught and logged); every
\* caller returns from the handler right after it
ReplySettle_Retry(r, ok) ==
  /\ run[r].pc = "reply"
  /\ run' = [run EXCEPT ![r] =
       IF ok THEN Return(run[r], run[r].replies[Len(run[r].replies)].kind)
       ELSE postThreadHelp(run[r], run[r].replies[Len(run[r].replies)].kind)]
  /\ UNCHANGED <<noteDedupe, now, ticks, present, tmpFiles, cfg, join, pure>>

ReplySettle(r, ok) ==
  /\ run[r].pc = "reply"
  /\ run' = [run EXCEPT ![r] = Return(run[r], run[r].replies[Len(run[r].replies)].kind)]
  /\ UNCHANGED <<noteDedupe, now, ticks, present, tmpFiles, cfg, join, pure>>

\* the display names chosen from the lookup results (lines 809-817):
\* info?.user?.real_name || info?.user?.profile?.display_name || fallback
displayNameOf_DisplayFirst(info, fallback) ==
  IF info.found /\ info.display_name # <<>> THEN info.display_name
  ELSE IF info.found /\ info.real_name # <<>> THEN info.real_name
  ELSE fallback

displayNameOf(info, fallback) ==
  IF info.found /\ info.real_name # <<>> THEN info.real_name
  ELSE IF info.found /\ info.display_name # <<>> THEN info.display_name
  ELSE fallback

Mention(user) == <<"<@", user, ">">>

authorName(info, user) ==
  displayNameOf(info, IF user # "" THEN Mention(user) ELSE <<"unknown">>)

reactorName(info, user) == displayNameOf(info, Mention(user))

AuthorNameOf(rec) ==
  LET u == MsgOf(rec).user
  IN authorName(IF rec.author = "ok" THEN Profiles[u] ELSE NoInfo, u)

ReactorNameOf(rec) ==
  reactorName(IF rec.reactor = "ok" THEN Profiles[rec.user] ELSE NoInfo, rec.user)

\* lines 848-861: format the note and issue pdPost("notes", {deal_id, content})
SubmitNote(rec) ==
  LET msg == MsgOf(rec)
      content == buildNoteFromSlack(rec.channelName, rec.reactorName, rec.authorName,
                                    rec.permalink, msg.text, attachmentsListOf(msg.files))
  IN [ Call(rec, "pdPost:notes") EXCEPT
         !.pc = "note",
         !.noteReq = Append(@, [deal_id |-> NumberOf(rec.dealId), content |-> content]) ]

\* the attachment loop (lines 827-844) moves on to file i, or leaves the loop
UploadLoop(rec, i) ==
  IF i <= Len(MsgOf(rec).files)
  THEN [Call(rec, "downloadFile") EXCEPT !.pc = "download", !.fileIdx = i]
  ELSE SubmitNote(rec)

\* faulty variant: an empty history is reported like a failed lookup
NoMessage_Reply(rec) == postThreadHelp(rec, "history_error")

\* line 799: if (!msg) return;
NoMessage(rec) == Return(rec, "no_message")

\* lines 787-807: conversations.history settles; the three lookups are issued
HistSettle(r, ok) ==
  /\ run[r].pc = "hist"
  /\ LET got == HistoryLookup(run[r].channel, run[r].ts)
         rec == [run[r] EXCEPT !.histRes = IF ~ok THEN "fail"
                                          ELSE IF got = 0 THEN "empty" ELSE "found"]
         found == [rec EXCEPT !.msgTs = got]
         withAuthor == IF MsgOf(found).user # ""
                       THEN [Call(found, "users.info:author") EXCEPT !.author = "pending"]
                       ELSE [found EXCEPT !.author = "null"]
     IN run' = [run EXCEPT ![r] =
          IF ~ok THEN postThreadHelp(rec, "history_error")
          ELSE IF found.msgTs = 0 THEN NoMessage(found)
          ELSE [ Call(Call(withAuthor, "users.info:reactor"), "chat.getPermalink") EXCEPT
                   !.pc = "lookups", !.reactor = "pending", !.link = "pending" ]]
  /\ UNCHANGED <<noteDedupe, now, ticks, present, tmpFiles, cfg, join, pure>>

\* lines 801-861: Promise.all has resolved (its continuation runs in the same
\* turn as the last settlement): names, attachments, then the note
\* faulty variant: the upload toggle is read inverted, the loop is skipped
AfterLookups_SkipLoop(rec) ==
  LET named == [rec EXCEPT
                  !.authorName = AuthorNameOf(rec),
                  !.reactorName = ReactorNameOf(rec),
                  !.permalink = IF rec.link = "ok" THEN PermalinkOf(rec.channel, rec.ts)
                                ELSE <<>>]
  IN IF Len(MsgOf(rec).files) > 0 /\ ~cfg.REACTION_UPLOAD_FILES
     THEN UploadLoop(named, 1)
     ELSE SubmitNote(named)

AfterLookups(rec) ==
  LET named == [rec EXCEPT
                  !.authorName = AuthorNameOf(rec),
                  !.reactorName = ReactorNameOf(rec),
                  !.permalink = IF rec.link = "ok" THEN PermalinkOf(rec.channel, rec.ts)
                                ELSE <<>>]
  IN IF Len(MsgOf(rec).files) > 0 /\ cfg.REACTION_UPLOAD_FILES
     THEN UploadLoop(named, 1)
     ELSE SubmitNote(named)

\* faulty variant: Promise.all without the per-lookup catch rejects on the
\* first failed lookup and the run ends in the outer catch
AwaitAll_FailFast(rec) ==
  IF "null" \in {rec.author, rec.reactor, rec.link} THEN Return(rec, "caught")
  ELSE IF "pending" \in {rec.author, rec.reactor, rec.link} THEN rec
  ELSE AfterLookups(rec)

\* await Promise.all([...]): the handler resumes once no member is pending
AwaitAll(rec) ==
  IF "pending" \in {rec.author, rec.reactor, rec.link} THEN rec ELSE AfterLookups(rec)

\* one of the three Promise.all members settles; .catch(() => null) on failure
AuthorSettle(r, ok) ==
  /\ run[r].pc = "lookups" /\ run[r].author = "pending"
  /\ run' = [run EXCEPT ![r] =
       AwaitAll([run[r] EXCEPT !.author = IF ok THEN "ok" ELSE "null"])]
  /\ UNCHANGED <<noteDedupe, now, ticks, present, tmpFiles, cfg, join, pure>>

ReactorSettle(r, ok) ==
  /\ run[r].pc = "lookups" /\ run[r].reactor = "pending"
  /\ run' = [run EXCEPT ![r] =
       AwaitAll([run[r] EXCEPT !.reactor = IF ok THEN "ok" ELSE "null"])]
  /\ UNCHANGED <<noteDedupe, now, ticks, present, tmpFiles, cfg, join, pure>>

PermalinkSettle(r, ok) ==
  /\ run[r].pc = "lookups" /\ run[r].link = "pending"
  /\ run' = [run EXCEPT ![r] =
       AwaitAll([run[r] EXCEPT !.link = IF ok THEN "ok" ELSE "null"])]
  /\ UNCHANGED <<noteDedupe, now, ticks, present, tmpFiles, cfg, join, pure>>

\* the outcome of one download or upload of the attachment loop, as observed
Attempted(rec, op, ok) ==
  [rec EXCEPT !.attempts = Append(@, [file |-> rec.fileIdx, op |-> op, ok |-> ok])]

\* faulty variant: the loop body without its try/catch, a failed attachment
\* ends the run in the outer catch
AttachmentFailed_Abort(rec) == Return(rec, "caught")

\* lines 837-843: the loop body's catch logs and the loop goes on
AttachmentFailed(rec) == UploadLoop(rec, rec.fileIdx + 1)

\* downloadFile settles: the temp file is written, then the upload is issued;
\* a failure is caught by the loop body's catch
DownloadSettle(r, ok) ==
  /\ run[r].pc = "download"
  /\ LET rec == Attempted(run[r], "download", ok)
     IN IF ok
        THEN /\ tmpFiles' = tmpFiles \cup {<<r, rec.fileIdx>>}
             /\ run' = [run EXCEPT ![r] =
                  [Call(rec, "uploadFileToPipedrive") EXCEPT !.pc = "upload"]]
        ELSE /\ tmpFiles' = tmpFiles
             /\ run' = [run EXCEPT ![r] = AttachmentFailed(rec)]
  /\ UNCHANGED <<noteDedupe, now, ticks, present, cfg, join, pure>>

\* uploadFileToPipedrive settles: fs.unlinkSync(tmp) follows a successful
\* upload only; its own failure is swallowed
UploadSettle(r, ok, unlinkOk) ==
  /\ run[r].pc = "upload"
  /\ LET rec == Attempted(run[r], "upload", ok)
     IN IF ok
        THEN /\ tmpFiles' = IF unlinkOk THEN tmpFiles \ {<<r, rec.fileIdx>>} ELSE tmpFiles
             /\ run' = [run EXCEPT ![r] =
                  UploadLoop([rec EXCEPT !.unlinkTried = @ \cup {rec.fileIdx}],
                             rec.fileIdx + 1)]
        ELSE /\ tmpFiles' = tmpFiles
             /\ run' = [run EXCEPT ![r] = AttachmentFailed(rec)]
  /\ UNCHANGED <<noteDedupe, now, ticks, present, cfg, join, pure>>

\* faulty variant: any response that did not throw counts as success
NoteSucceeded_Any(res) == res \in {"success", "nosuccess"}

\* line 863: if (noteRes?.success)
NoteSucceeded(res) == res = "success"

\* lines 858-897: pdPost settles: a success payload, another payload, or a throw
NoteSettle(r, res) ==
  /\ run[r].pc = "note"
  /\ LET rec == [run[r] EXCEPT !.noteRes = res]
     IN IF res # "throw" /\ NoteSucceeded(res)
        THEN /\ noteDedupe' = DedupeSet(cacheKey(rec.channel, rec.ts))
             /\ run' = [run EXCEPT ![r] =
                  [Call(Forget(rec), "reactions.add") EXCEPT !.pc = "react", !.markT = now]]
        ELSE /\ noteDedupe' = noteDedupe
             /\ run' = [run EXCEPT ![r] =
                  postThreadHelp(Forget(rec), IF res = "throw" THEN "api_error"
                                              ELSE "unknown_response")]
  /\ UNCHANGED <<now, ticks, present, tmpFiles, cfg, join, pure>>

\* faulty variant: reactions.add without its catch, a rejection reaches the
\* catch of the submit block
AfterReaction_Caught(rec, ok) ==
  IF ok THEN postThreadHelp(rec, "sent") ELSE postThreadHelp(rec, "api_error")

\* lines 866-875: .catch(() => {}) swallows a failed reactions.add; the
\* success reply follows either way
AfterReaction(rec, ok) == postThreadHelp(rec, "sent")

\* reactions.add settles
ReactSettle(r, ok) ==
  /\ run[r].pc = "react"
  /\ run' = [run EXCEPT ![r] = AfterReaction(run[r], ok)]
  /\ UNCHANGED <<noteDedupe, now, ticks, present, tmpFiles, cfg, join, pure>>

\* the wall clock advances (Date.now() is only ever compared with a stored
\* mark, by the dedupe check of an arriving event, or stored as one when
\* pdPost settles: the clock is followed from the first mark on, while one
\* of these can still happen)
Tick(d) ==
  /\ ticks < MaxTicks
  /\ noteDedupe # <<>>
  /\ \E r \in Runs : run[r].pc \in {"idle", "note"}
  /\ now' = now + d
  /\ ticks' = ticks + 1
  /\ UNCHANGED <<run, noteDedupe, present, tmpFiles, cfg, join, pure>>

\* a user deletes a message of a channel (the history is only ever read by
\* a pending conversations.history({latest: ts}), so a deletion is followed
\* while one that it can affect is pending)
DeleteMessage(c, t) ==
  /\ <<c, t>> \in present
  /\ \E r \in Runs : run[r].pc = "hist" /\ run[r].channel = c /\ t <= run[r].ts
  /\ present' = present \ {<<c, t>>}
  /\ UNCHANGED <<run, noteDedupe, now, ticks, tmpFiles, cfg, join, pure>>

NoteResults == {"success", "nosuccess", "throw"}

Next ==
  \/ \E r \in Runs, reaction \in Reactions, item \in EventItems, u \in Reactors :
       ReactionAdded(r, reaction, item[1], item[2], u)
  \/ \E r \in Runs, ok \in BOOLEAN : InfoSettle(r, ok)
  \/ \E r \in Runs, ok \in BOOLEAN : HistSettle(r, ok)
  \/ \E r \in Runs, ok \in BOOLEAN : AuthorSettle(r, ok)
  \/ \E r \in Runs, ok \in BOOLEAN : ReactorSettle(r, ok)
  \/ \E r \in Runs, ok \in BOOLEAN : PermalinkSettle(r, ok)
  \/ \E r \in Runs, res \in NoteResults : NoteSettle(r, res)
  \/ \E r \in Runs, ok \in BOOLEAN : ReactSettle(r, ok)
  \/ \E r \in Runs, ok \in BOOLEAN : ReplySettle(r, ok)
  \/ \E c \in Channels, t \in TsSet : DeleteMessage(c, t)
  \/ \E d \in TickSteps : Tick(d)

\* the steps of the attachment relay, taken only with REACTION_UPLOAD_FILES=true
NextUpload ==
  \/ Next
  \/ \E r \in Runs, ok \in BOOLEAN : DownloadSettle(r, ok)
  \/ \E r \in Runs, ok \in BOOLEAN, unlinkOk \in BOOLEAN : UploadSettle(r, ok, unlinkOk)

\* the program as configured by default (REACTION_UPLOAD_FILES unset)
Spec == Init /\ [][Next]_vars

\* the program with the CRM attachment upload enabled
SpecUpload == InitUpload /\ [][NextUpload]_vars


(* --------------- the member_joined_channel handlers -------------------- *)
\* the channels a join event can name, with the name conversations.info reports
JoinChannelNames ==
  [ J1 |-> <<"r","c","n","-","d","e","a","l","7">>,
    J2 |-> <<"r","c","n","-","s","m","i","t","h">>,
    J3 |-> <<"g","e","n","e","r","a","l">>,
    J4 |-> <<"x","-","R","C","N","-","d","e","a","l","7">>,
    J5 |-> <<"r","c","n","-","D","e","a","l","1","2","a","b">> ]
JoinChannels == DOMAIN JoinChannelNames
\* event.user of a join event, and the bot's own id as known to the handler
JoinUsers == {None, "B", "U1"}
BotIds == {None, "B"}

Letters ==
  {"a","b","c","d","e","f","g","h","i","j","k","l","m","n","o","p","q","r","s",
   "t","u","v","w","x","y","z","A","C","D","E","L","N","R"}

\* the regex class \w
IsWordChar(c) == IsDigit(c) \/ c = "_" \/ c \in Letters

\* String(name).toLowerCase()
LowerCase(s) == [i \in 1..Len(s) |-> Lower(s[i])]

\* the regex assertion \b after the digit at position j
WordBoundaryAfter(s, j) == j = Len(s) \/ ~IsWordChar(s[j + 1])

\* extractDealIdFromChannelName of the first program: /deal(\d+)\b/ on the
\* lowercased name (\d+ cannot give back a digit to reach a \b, so a match
\* starts only where the whole digit run ends at a word boundary)
extractDealIdFromChannelName1(name) ==
  LET low == LowerCase(name)
      starts == {i \in 1..Len(low) :
                   DealAt(low, i) /\ WordBoundaryAfter(low, DigitRunEnd(low, i + 4))}
  IN IF starts = {} THEN NoDeal
     ELSE LET i == CHOOSE k \in starts : \A m \in starts : k <= m
          IN SubSeq(low, i + 4, DigitRunEnd(low, i + 4))

\* isReconChannelName of the first program: lowercased name starts with "rcn-"
isReconChannelName1(name) ==
  Len(name) >= 4 /\ SubSeq(LowerCase(name), 1, 4) = <<"r","c","n","-">>

\* isReconChannelName of the second program: RECON_CHANNEL_REGEX = /rcn/i
isReconChannelName(name) ==
  \E i \in 1..(Len(name) - 2) : SubSeq(LowerCase(name), i, i + 2) = <<"r","c","n">>

JoinCall(rec, name) == [rec EXCEPT !.calls = Append(@, name)]
\* client.chat.postMessage({channel, text}) into the channel
JoinPost(rec, kind) ==
  [JoinCall(rec, "chat.postMessage") EXCEPT !.posts = Append(@, kind)]
JoinReturn(rec, why) == [rec EXCEPT !.pc = "done", !.exit = why]

\* faulty variant: the filter without the comparison of the joining user
IsBotJoin_AnyUser(user, botUserId) == botUserId # None

\* lines 250 and 644-645: the bot's id is known and the joining user is the bot
\* (context.botUserId in the first program; BOT_USER_ID in the second, null
\* until initBotIdentity's auth.test succeeds, lines 577-587)
IsBotJoin(user, botUserId) == botUserId # None /\ user = botUserId

\* lines 245-253 and 642-650 with 589-590: the bot-identity filter, then the
\* first await of the flow
MemberJoined(v, channelId, user, botUserId) ==
  /\ join.pc = "idle"
  /\ LET rec == [join EXCEPT !.variant = v, !.channel = channelId, !.user = user,
                             !.bot = botUserId, !.entry = "event"]
     IN join' =
          IF ~IsBotJoin(user, botUserId) THEN JoinReturn(rec, "not_bot")
          ELSE IF v = 1 THEN [JoinCall(rec, "conversations.info") EXCEPT !.pc = "info"]
          ELSE IF channelId = None THEN JoinReturn(rec, "no_channel")
          ELSE [JoinCall(rec, "conversations.join") EXCEPT !.pc = "join"]
  /\ UNCHANGED <<run, noteDedupe, now, ticks, present, tmpFiles, cfg, pure>>

\* lines 266-270: /recon-start is received and acknowledged (ack() is awaited
\* outside the handler's try)
ReconStartCommand(channelId, user) ==
  /\ join.pc = "idle"
  /\ join' = [JoinCall([join EXCEPT !.variant = 1, !.channel = channelId,
                                    !.user = user, !.entry = "command"], "ack")
               EXCEPT !.pc = "ack"]
  /\ UNCHANGED <<run, noteDedupe, now, ticks, present, tmpFiles, cfg, pure>>

\* ack() settles: a rejection leaves the handler, otherwise the channel is
\* looked up (line 270)
AckSettle(ok) ==
  /\ join.pc = "ack"
  /\ join' = IF ok THEN [JoinCall(join, "conversations.info") EXCEPT !.pc = "info"]
             ELSE JoinReturn(join, "uncaught")
  /\ UNCHANGED <<run, noteDedupe, now, ticks, present, tmpFiles, cfg, pure>>

\* lines 273-280: /recon-start outside a recon channel answers the caller only
NotReconChannel(rec) ==
  IF rec.entry = "command"
  THEN [JoinCall(rec, "chat.postEphemeral") EXCEPT !.pc = "ephemeral"]
  ELSE JoinReturn(rec, "not_recon")

\* chat.postEphemeral settles (a rejection reaches the handler's catch)
EphemeralSettle(ok) ==
  /\ join.pc = "ephemeral"
  /\ join' = JoinReturn(join, IF ok THEN "not_recon" ELSE "caught")
  /\ UNCHANGED <<run, noteDedupe, now, ticks, present, tmpFiles, cfg, pure>>

\* lines 173-179: startReconChannel without a deal id posts the warning
MissingDealOnStart(rec) == [JoinPost(rec, "need_deal") EXCEPT !.pc = "warn"]

\* lines 171-182: startReconChannel up to ensureBotInChannel's join
startReconChannel(rec) ==
  LET dealId == extractDealIdFromChannelName1(rec.name)
  IN IF dealId = NoDeal THEN MissingDealOnStart(rec)
     ELSE [JoinCall([rec EXCEPT !.dealId = dealId], "conversations.join") EXCEPT
             !.pc = "join"]

\* conversations.info settles (a rejection reaches the handler's catch)
JoinInfoSettle(ok) ==
  /\ join.pc = "info"
  /\ LET name == IF join.channel = None THEN <<>> ELSE JoinChannelNames[join.channel]
         rec == [join EXCEPT !.name = name]
     IN join' =
          IF ~ok \/ join.channel = None THEN JoinReturn(join, "caught")
          ELSE IF join.variant = 1
          THEN IF ~isReconChannelName1(name) THEN NotReconChannel(rec)
               ELSE startReconChannel(rec)
          ELSE IF ~isReconChannelName(name) THEN JoinReturn(rec, "not_recon")
               ELSE [JoinCall(rec, "conversations.invite") EXCEPT !.pc = "invite"]
  /\ UNCHANGED <<run, noteDedupe, now, ticks, present, tmpFiles, cfg, pure>>

\* the warning's chat.postMessage settles (a rejection reaches the handler's catch)
JoinWarnSettle(ok) ==
  /\ join.pc = "warn"
  /\ join' = JoinReturn(join, IF ok THEN "need_deal" ELSE "caught")
  /\ UNCHANGED <<run, noteDedupe, now, ticks, present, tmpFiles, cfg, pure>>

\* ensureBotInChannel: conversations.join settles, a rejection is ignored
EnsureBotSettle(ok) ==
  /\ join.pc = "join"
  /\ join' = IF join.variant = 1 THEN [join EXCEPT !.pc = "sleep"]
             ELSE [JoinCall(join, "conversations.info") EXCEPT !.pc = "info"]
  /\ UNCHANGED <<run, noteDedupe, now, ticks, present, tmpFiles, cfg, pure>>

\* line 183-184: sleep(250) ends, the baseline invite is issued
SleepDone ==
  /\ join.pc = "sleep"
  /\ join' = [JoinCall(join, "conversations.invite") EXCEPT !.pc = "invite"]
  /\ UNCHANGED <<run, noteDedupe, now, ticks, present, tmpFiles, cfg, pure>>

\* faulty variant: the join flow reports the missing deal id in the channel
MissingDealOnJoin_Warn(rec) == [JoinPost(rec, "need_deal") EXCEPT !.pc = "warn"]

\* lines 604-607: handleBotJoinedChannel without a deal id returns
MissingDealOnJoin(rec) == JoinReturn(rec, "no_deal")

\* the baseline invite settles (its errors are logged only), the deal is fetched
InviteSettle(ok) ==
  /\ join.pc = "invite"
  /\ join' =
       IF join.variant = 1 THEN [JoinCall(join, "pdGetDeal") EXCEPT !.pc = "deal"]
       ELSE LET dealId == extractDealIdFromChannelName(join.name)
            IN IF dealId = NoDeal THEN MissingDealOnJoin(join)
               ELSE [JoinCall([join EXCEPT !.dealId = dealId], "pdGet:deals") EXCEPT
                       !.pc = "deal"]
  /\ UNCHANGED <<run, noteDedupe, now, ticks, present, tmpFiles, cfg, pure>>

\* lines 207-214: the "initialized" message is posted
InitMsg(rec) == [JoinPost(rec, "initialized") EXCEPT !.pc = "initmsg"]

\* lines 225-236: the final "Recon started" message is posted
FinalMsg(rec) == [JoinPost(rec, "recon_started") EXCEPT !.pc = "final"]

\* the CRM deal fetch settles: it throws, reports no success, or returns a
\* deal whose Project Manager is or is not mapped to a Slack user
DealResults == {"throw", "nosuccess", "nopm", "pm"}
DealSettle(res) ==
  /\ join.pc = "deal"
  /\ join' =
       IF join.variant = 1
       THEN IF res = "pm"
            THEN [JoinCall([join EXCEPT !.pmSlack = TRUE], "conversations.invite") EXCEPT
                    !.pc = "pminvite"]
            ELSE InitMsg(join)
       ELSE IF res = "throw" THEN JoinReturn(join, "caught")
       ELSE IF res = "nosuccess" THEN JoinReturn(join, "no_deal_data")
       \* PM_ENUM_ID_TO_SLACK has no entry: pmSlackId stays null
       ELSE [JoinPost(join, "invited_no_pm") EXCEPT !.pc = "final"]
  /\ UNCHANGED <<run, noteDedupe, now, ticks, present, tmpFiles, cfg, pure>>

\* the PM's invite settles (inviteUsersToChannel swallows every error)
PmInviteSettle(ok) ==
  /\ join.pc = "pminvite"
  /\ join' = InitMsg(join)
  /\ UNCHANGED <<run, noteDedupe, now, ticks, present, tmpFiles, cfg, pure>>

\* the "initialized" message settles: its ts goes to chat.getPermalink
InitMsgSettle(ok) ==
  /\ join.pc = "initmsg"
  /\ join' = IF ok THEN [JoinCall(join, "chat.getPermalink") EXCEPT !.pc = "permalink"]
             ELSE FinalMsg(join)
  /\ UNCHANGED <<run, noteDedupe, now, ticks, present, tmpFiles, cfg, pure>>

\* chat.getPermalink settles: it throws, or answers with or without a permalink
PermalinkResults == {"throw", "none", "ok"}
\* faulty variant: the writeback is issued whatever chat.getPermalink answered
Writeback_Always(rec, res) ==
  IF res = "throw" THEN FinalMsg(rec)
  ELSE [JoinCall(rec, "pdUpdateDeal") EXCEPT !.pc = "writeback"]

\* lines 216-219: pdUpdateDeal is called only with a permalink
Writeback(rec, res) ==
  IF res = "ok" THEN [JoinCall(rec, "pdUpdateDeal") EXCEPT !.pc = "writeback"]
  ELSE FinalMsg(rec)

JoinPermalinkSettle(res) ==
  /\ join.pc = "permalink"
  /\ join' = Writeback([join EXCEPT !.linkRes = res], res)
  /\ UNCHANGED <<run, noteDedupe, now, ticks, present, tmpFiles, cfg, pure>>

\* pdUpdateDeal settles (a failure is logged only)
WritebackSettle(ok) ==
  /\ join.pc = "writeback"
  /\ join' = FinalMsg(join)
  /\ UNCHANGED <<run, noteDedupe, now, ticks, present, tmpFiles, cfg, pure>>

\* the last chat.postMessage of the flow settles
FinalSettle(ok) ==
  /\ join.pc = "final"
  /\ join' = JoinReturn(join, IF ok THEN "finished" ELSE "caught")
  /\ UNCHANGED <<run, noteDedupe, now, ticks, present, tmpFiles, cfg, pure>>

NextJoin ==
  \/ \E v \in {1, 2}, c \in JoinChannels \cup {None}, u \in JoinUsers, b \in BotIds :
       MemberJoined(v, c, u, b)
  \/ \E c \in JoinChannels, u \in JoinUsers \ {None} : ReconStartCommand(c, u)
  \/ \E ok \in BOOLEAN : AckSettle(ok)
  \/ \E ok \in BOOLEAN : EphemeralSettle(ok)
  \/ \E ok \in BOOLEAN : JoinInfoSettle(ok)
  \/ \E ok \in BOOLEAN : JoinWarnSettle(ok)
  \/ \E ok \in BOOLEAN : EnsureBotSettle(ok)
  \/ SleepDone
  \/ \E ok \in BOOLEAN : InviteSettle(ok)
  \/ \E res \in DealResults : DealSettle(res)
  \/ \E ok \in BOOLEAN : PmInviteSettle(ok)
  \/ \E ok \in BOOLEAN : InitMsgSettle(ok)
  \/ \E res \in PermalinkResults : JoinPermalinkSettle(res)
  \/ \E ok \in BOOLEAN : WritebackSettle(ok)
  \/ \E ok \in BOOLEAN : FinalSettle(ok)

\* faulty variant: the handler body without its try/catch, the exception
\* leaves the handler
TopLevelCatch_Rethrow(rec) == [Forget(rec) EXCEPT !.pc = "crashed", !.exit = "uncaught"]

\* lines 898-903: the catch around the whole handler body logs and returns
TopLevelCatch(rec) == Return(rec, "caught")

\* the lookups of Promise.all that have not settled
PendingLookups(rec) ==
  {x \in {"author", "reactor", "link"} :
     (x = "author" /\ rec.author = "pending") \/ (x = "reactor" /\ rec.reactor = "pending")
       \/ (x = "link" /\ rec.link = "pending")}

\* an exception raised by the handler's own code where it resumes outside
\* every inner try block: after conversations.info (lines 766-777), after
\* conversations.history (lines 799-807), and after Promise.all (lines
\* 809-824, 848-855: names, attachments list, note formatting)
Unexpected(r) ==
  /\ \/ run[r].pc \in {"info", "hist"}
     \/ run[r].pc = "lookups" /\ Cardinality(PendingLookups(run[r])) = 1
  /\ run' = [run EXCEPT ![r] = TopLevelCatch(run[r])]
  /\ UNCHANGED <<noteDedupe, now, ticks, present, tmpFiles, cfg, join, pure>>

NextThrow ==
  \/ Next
  \/ \E r \in Runs : Unexpected(r)

\* the reaction pipeline with exceptions in the handler's own code
SpecThrow == Init /\ [][NextThrow]_vars

NextUploadThrow ==
  \/ NextUpload
  \/ \E r \in Runs : Unexpected(r)

\* the reaction pipeline with the attachment upload enabled and with
\* exceptions in the handler's own code
SpecUploadThrow == InitUpload /\ [][NextUploadThrow]_vars

\* the join handlers alone (no reaction event is delivered)
SpecJoin == InitUpload /\ [][NextJoin]_vars

(* ------------------------ the pure helpers ----------------------------- *)
\* channel names assembled from a prefix, a word, a digit run and a suffix
NamePrefixes == { <<>>, <<"r","c","n","-">>, <<"i","d","e","a","l","-">> }
NameWords == { <<"d","e","a","l">>, <<"D","e","a","l">>, <<"D","E","A","L">>, <<"d","e","a">> }
NameDigits == { <<>>, <<"7">>, <<"1","2">> }
NameSuffixes == { <<>>, <<"a">>, <<"_">>, <<"-","x">>, <<"-","d","e","a","l","9">> }
NameParts == [pre : NamePrefixes, word : NameWords, digits : NameDigits, suf : NameSuffixes]
NameOf(parts) == parts.pre \o parts.word \o parts.digits \o parts.suf

ExtractInputs ==
  { [fn |-> "extractDealIdFromChannelName", variant |-> v, parts |-> parts,
     applied |-> FALSE, out |-> <<>>] : v \in {1, 2}, parts \in NameParts }

\* a call of extractDealIdFromChannelName, of the first or the second program
ExtractDealId ==
  /\ pure.fn = "extractDealIdFromChannelName" /\ ~pure.applied
  /\ pure' = [pure EXCEPT
       !.applied = TRUE,
       !.out = IF pure.variant = 1 THEN extractDealIdFromChannelName1(NameOf(pure.parts))
               ELSE extractDealIdFromChannelName(NameOf(pure.parts))]
  /\ UNCHANGED <<run, noteDedupe, now, ticks, present, tmpFiles, cfg, join>>

\* users.info payloads: every combination of present and absent name fields
UserInfos ==
  { [found |-> TRUE, real_name_normalized |-> n, real_name |-> rn,
     display_name |-> d, name |-> h] :
      n \in {<<>>, <<"Zoe">>}, rn \in {<<>>, <<"Zoe~">>},
      d \in {<<>>, <<"zz">>}, h \in {<<>>, <<"zoe88">>} }

\* the author's lookup is made only when the message has a user (line 802)
NameInputs ==
  { [fn |-> "displayName", role |-> role, user |-> u, info |-> info,
     applied |-> FALSE, out |-> <<>>] :
      role \in {"author", "reactor"}, u \in {"U1", ""},
      info \in UserInfos \cup {NoInfo} }
  \ { x \in [fn : {"displayName"}, role : {"author", "reactor"}, user : {""},
             info : UserInfos \cup {NoInfo}, applied : {FALSE}, out : {<<>>}] :
        x.role = "reactor" \/ x.info.found }

\* the choice of authorName or reactorName from a lookup result
ChooseName ==
  /\ pure.fn = "displayName" /\ ~pure.applied
  /\ pure' = [pure EXCEPT
       !.applied = TRUE,
       !.out = IF pure.role = "author" THEN authorName(pure.info, pure.user)
               ELSE reactorName(pure.info, pure.user)]
  /\ UNCHANGED <<run, noteDedupe, now, ticks, present, tmpFiles, cfg, join>>

\* message texts as Slack delivers them: entities escaped, line breaks as "\n"
NoteTexts ==
  { <<>>, <<"o", "k">>, <<" ">>,
    <<"a", "&amp;", "b">>, <<"&lt;", "b", "&gt;">>,
    <<"a", " ", "\n", "b">>, <<"a", "\n", "\n", "\n", "b">>,
    <<" ", "a", "\n">> }

FileA == [name |-> <<"a.pdf">>, filetype |-> <<"pdf">>]
FileB == [name |-> <<"b.png">>, filetype |-> <<"png">>]
\* msg.files: absent or empty, one file, several files in either order
NoteFiles == { NoFiles, <<FileA>>, <<FileA, FileB>>, <<FileB, FileA>>, <<FileB, FileA, FileB>> }

\* linkRes?.permalink: undefined when chat.getPermalink failed
NotePermalinks == { <<>>, PermalinkOf("C1", 1) }

FormatInputs ==
  { [fn |-> "buildNoteFromSlack", text |-> t, files |-> f, permalink |-> l,
     applied |-> FALSE, out |-> <<>>] :
      t \in NoteTexts, f \in NoteFiles, l \in NotePermalinks }

\* the note built from a message: attachmentsList (lines 821-824) and
\* buildNoteFromSlack (lines 848-855)
FormatNote ==
  /\ pure.fn = "buildNoteFromSlack" /\ ~pure.applied
  /\ pure' = [pure EXCEPT
       !.applied = TRUE,
       !.out = buildNoteFromSlack(ChannelNames["C1"], <<"bob">>, <<"Alice">>,
                                  pure.permalink, pure.text,
                                  attachmentsListOf(pure.files))]
  /\ UNCHANGED <<run, noteDedupe, now, ticks, present, tmpFiles, cfg, join>>

PureInputs == ExtractInputs \cup NameInputs \cup FormatInputs

InitPure ==
  /\ run = [r \in Runs |-> IdleRun]
  /\ noteDedupe = <<>>
  /\ now = 1
  /\ ticks = 0
  /\ present = InitialMessages
  /\ tmpFiles = {}
  /\ cfg = [ENABLE_REACTION_TO_PD_NOTE |-> TRUE, REACTION_UPLOAD_FILES |-> FALSE]
  /\ join = JoinIdle
  /\ pure \in PureInputs

NextPure ==
  \/ ExtractDealId
  \/ ChooseName
  \/ FormatNote

\* the pure helpers applied to inputs drawn from bounded sets
SpecPure == InitPure /\ [][NextPure]_vars

(* ======================= properties of the pipeline ==================== *)
Abs(x) == IF x < 0 THEN -x ELSE x

\* sub occurs in s as a contiguous run of tokens
Contains(s, sub) ==
  \E i \in 0..(Len(s) - Len(sub)) : SubSeq(s, i + 1, i + Len(sub)) = sub

Count(seq, x) == Cardinality({i \in 1..Len(seq) : seq[i] = x})

Started(r) == run[r].pc # "idle"

SameKey(r1, r2) ==
  /\ Started(r1) /\ Started(r2)
  /\ run[r1].channel = run[r2].channel /\ run[r1].ts = run[r2].ts

\* run r received a success payload and wrote the dedupe entry
Marked(r) == run[r].markT # 0

\* no run on r's key has written a dedupe entry
NeverMarked(r) == \A q \in Runs : SameKey(q, r) => ~Marked(q)

\* the reply a run posted into the thread of its message
ThreadReply(r, kind, deal) ==
  [kind |-> kind, channel |-> run[r].channel, thread_ts |-> run[r].ts, deal |-> deal]

\* the deal number written in a channel's name, and the channels without one
DealNumberInName == [C1 |-> 42]
DealDigitsInName == [C1 |-> <<"4", "2">>]
NoDealChannels == {"C2"}

\* C1 (as stated): for two handler runs on the same (channelId, ts), at most
\* one note POST succeeds within the dedupe window, because two runs never both
\* pass the dedupe check.
C1_OnePostPerWindow ==
  \A r1, r2 \in Runs :
    (r1 # r2 /\ SameKey(r1, r2) /\ Marked(r1) /\ Marked(r2))
      => Abs(run[r1].markT - run[r2].markT) >= WINDOW_MS

\* C1 (amended): the check and the mark are separated by the handler's awaits,
\* so overlapping runs can both pass the check; among the runs that start while
\* no other run on the same (channelId, ts) is in flight, two successful note
\* POSTs are at least a dedupe window apart.
C1_OnePostPerWindowSerial ==
  \A r1, r2 \in Runs :
    (r1 # r2 /\ SameKey(r1, r2) /\ Marked(r1) /\ Marked(r2)
       /\ run[r1].alone /\ run[r2].alone)
      => Abs(run[r1].markT - run[r2].markT) >= WINDOW_MS

\* two serial runs on one key both submitted: the second after the window
C1_Witness ==
  \E r1, r2 \in Runs :
    /\ r1 # r2 /\ SameKey(r1, r2) /\ Marked(r1) /\ Marked(r2)
    /\ run[r1].alone /\ run[r2].alone

\* C2: an accepted reaction handled after an earlier run on the same
\* (channelId, ts) has submitted its note and finished, inside the window, is a
\* dedupe hit: the second run makes no Slack call, no reply, no reaction-add
\* and no CRM call, and the two runs issue exactly one note POST in total.
C2_Idempotent ==
  \A r1, r2 \in Runs :
    (/\ r1 < r2 /\ SameKey(r1, r2) /\ Marked(r1)
     /\ run[r2].alone /\ run[r2].checkmark
     /\ run[r2].startT - run[r1].markT < WINDOW_MS)
      => /\ run[r2].pc = "done" /\ run[r2].exit = "dedupe"
         /\ run[r2].calls = <<>> /\ run[r2].replies = <<>> /\ ~Marked(r2)
         /\ Count(run[r1].calls, "pdPost:notes") = 1

\* the second of two successive runs was suppressed
C2_Witness ==
  \E r1, r2 \in Runs :
    /\ r1 < r2 /\ SameKey(r1, r2) /\ Marked(r1) /\ run[r1].pc = "done"
    /\ run[r2].alone /\ run[r2].checkmark /\ run[r2].exit = "dedupe"

\* C3: a run whose note POST threw or returned a non-success payload has
\* issued that one POST, posted exactly one failure reply in the thread, added
\* no reaction and written no dedupe entry; while no run has marked the key it
\* is absent from the map and a later accepted reaction on it is not suppressed.
C3_FailedSubmission ==
  \A r \in Runs :
    run[r].noteRes \in {"nosuccess", "throw"} =>
      /\ Count(run[r].calls, "pdPost:notes") = 1
      /\ Count(run[r].calls, "chat.postMessage") = 1
      /\ Count(run[r].calls, "reactions.add") = 0
      /\ run[r].replies =
           <<ThreadReply(r, IF run[r].noteRes = "throw" THEN "api_error"
                            ELSE "unknown_response",
                         DealDigitsInName[run[r].channel])>>
      /\ ~Marked(r)
      /\ NeverMarked(r) =>
           /\ cacheKey(run[r].channel, run[r].ts) \notin DOMAIN noteDedupe
           /\ \A r2 \in Runs :
                (r < r2 /\ SameKey(r, r2) /\ run[r2].checkmark)
                  => run[r2].exit # "dedupe"

\* after a failed submission a later reaction on the same message reached the POST
C3_Witness ==
  \E r1, r2 \in Runs :
    /\ r1 < r2 /\ SameKey(r1, r2) /\ run[r2].alone
    /\ run[r1].noteRes \in {"nosuccess", "throw"} /\ run[r1].pc = "done"
    /\ Count(run[r2].calls, "pdPost:notes") = 1

\* C4: a run that received a success payload has written the dedupe entry,
\* issued the reaction-add once, and (whatever the reaction-add's outcome)
\* posts the success reply naming the deal in the thread; a run that found a
\* message issues exactly one note POST, with deal_id the number in the channel
\* name and content containing the message text and the author and reactor names.
C4_Success ==
  \A r \in Runs :
    /\ run[r].noteRes = "success" =>
         /\ Marked(r)
         /\ cacheKey(run[r].channel, run[r].ts) \in DOMAIN noteDedupe
         /\ noteDedupe[cacheKey(run[r].channel, run[r].ts)] >= run[r].markT
         /\ Count(run[r].calls, "reactions.add") = 1
         /\ run[r].pc \in {"react", "reply", "done"}
         /\ run[r].pc \in {"reply", "done"} =>
              run[r].replies = <<ThreadReply(r, "sent", DealDigitsInName[run[r].channel])>>
    /\ (run[r].histRes = "found" /\ run[r].pc \in {"note", "react", "reply", "done"})
         => Count(run[r].calls, "pdPost:notes") = 1
    /\ run[r].noteReq # <<>> =>
         /\ Len(run[r].noteReq) = 1
         /\ run[r].noteReq[1].deal_id = DealNumberInName[run[r].channel]
         /\ run[r].msgTs = run[r].ts =>
              Contains(run[r].noteReq[1].content, Messages[run[r].channel][run[r].ts].text)
         /\ run[r].authorName # <<>> /\ run[r].reactorName # <<>>
         /\ Contains(run[r].noteReq[1].content, <<"Author: ">> \o run[r].authorName)
         /\ Contains(run[r].noteReq[1].content, <<"Approved by: ">> \o run[r].reactorName)

\* a run has submitted, reacted and replied
C4_Witness ==
  \E r \in Runs :
    /\ run[r].noteRes = "success" /\ run[r].pc = "done" /\ run[r].exit = "sent"
    /\ run[r].ts = 1

\* C5: a run for an event whose reaction is outside the accepted set ends at
\* once with no API call at all (no CRM call, no thread reply) and writes no
\* dedupe entry, whatever the channel, the message and the earlier events.
C5_ForeignReaction ==
  \A r \in Runs :
    (Started(r) /\ ~run[r].checkmark) =>
      /\ run[r].pc = "done"
      /\ run[r].calls = <<>> /\ run[r].replies = <<>> /\ run[r].noteReq = <<>>
      /\ ~Marked(r)

\* a foreign reaction arrived on a message another run has submitted
C5_Witness ==
  \E r, q \in Runs :
    /\ q < r /\ SameKey(q, r) /\ Marked(q)
    /\ ~run[r].checkmark /\ run[r].exit = "filtered"

\* C6: a run that learned the name of a channel without a deal id posts exactly
\* one thread reply (the deal### guidance) and returns: no history lookup, no
\* CRM call, no dedupe entry.
C6_NoDealId ==
  \A r \in Runs :
    (run[r].infoRes = "ok" /\ run[r].channel \in NoDealChannels) =>
      /\ run[r].pc \in {"reply", "done"}
      /\ run[r].calls = <<"conversations.info", "chat.postMessage">>
      /\ run[r].replies = <<ThreadReply(r, "need_deal", NoDeal)>>
      /\ ~Marked(r)
      /\ run[r].pc = "done" => run[r].exit = "need_deal"

C6_Witness ==
  \E r \in Runs :
    /\ run[r].infoRes = "ok" /\ run[r].channel \in NoDealChannels
    /\ run[r].pc = "done" /\ Len(run[r].replies) = 1

\* C7: a run whose conversations.info failed posts one diagnostic thread reply
\* and returns: the lookup is issued once, no history lookup, no CRM call, no
\* dedupe entry.
C7_InfoFailure ==
  \A r \in Runs :
    /\ Count(run[r].calls, "conversations.info") <= 1
    /\ run[r].infoRes = "fail" =>
         /\ run[r].pc \in {"reply", "done"}
         /\ run[r].calls = <<"conversations.info", "chat.postMessage">>
         /\ run[r].replies = <<ThreadReply(r, "channel_info_error", NoDeal)>>
         /\ ~Marked(r)

C7_Witness ==
  \E r \in Runs :
    /\ run[r].infoRes = "fail" /\ run[r].pc = "done"
    /\ run[r].channel \notin NoDealChannels

\* C8: a run whose conversations.history failed posts one diagnostic thread
\* reply and returns without a CRM call; a run whose history lookup returned
\* no message returns silently: no reply, no CRM call, no dedupe entry.
C8_HistoryFailure ==
  \A r \in Runs :
    /\ run[r].histRes = "fail" =>
         /\ run[r].pc \in {"reply", "done"}
         /\ run[r].calls = <<"conversations.info", "conversations.history",
                             "chat.postMessage">>
         /\ run[r].replies =
              <<ThreadReply(r, "history_error", DealDigitsInName[run[r].channel])>>
         /\ ~Marked(r)
    /\ run[r].histRes = "empty" =>
         /\ run[r].pc = "done"
         /\ run[r].calls = <<"conversations.info", "conversations.history">>
         /\ run[r].replies = <<>>
         /\ ~Marked(r)

\* one run met a failed lookup, another an empty history
C8_Witness ==
  \E r1, r2 \in Runs :
    /\ run[r1].histRes = "fail" /\ run[r1].pc = "done"
    /\ run[r2].histRes = "empty" /\ run[r2].pc = "done"

\* C9: every note POST of a run for (channelId, ts) is built from the message
\* whose ts equals ts; when no such message is in the history, no note is
\* submitted for another message.
C9_ExactMessage ==
  \A r \in Runs : run[r].noteReq # <<>> => run[r].msgTs = run[r].ts

\* C10: the three lookups settle independently and a failed one only puts its
\* fallback into the note: the handler waits while any is pending, the note
\* POST is issued only once all three have settled, and every run that found
\* a message goes on to issue it.
C10_Lookups ==
  \A r \in Runs :
    /\ run[r].pc = "lookups" =>
         /\ "pending" \in {run[r].author, run[r].reactor, run[r].link}
         /\ Count(run[r].calls, "pdPost:notes") = 0
    /\ (run[r].histRes = "found" /\ run[r].pc \in {"reply", "done"})
         => Count(run[r].calls, "pdPost:notes") = 1
    /\ run[r].noteReq # <<>> =>
         LET content == run[r].noteReq[1].content
             author == Messages[run[r].channel][run[r].msgTs].user
         IN /\ {run[r].author, run[r].reactor, run[r].link} \subseteq {"ok", "null"}
            /\ Count(run[r].calls, "users.info:reactor") = 1
            /\ Count(run[r].calls, "chat.getPermalink") = 1
            /\ run[r].author = "null" =>
                 run[r].authorName = IF author = "" THEN <<"unknown">>
                                     ELSE <<"<@", author, ">">>
            /\ run[r].author = "ok" =>
                 run[r].authorName \in {Profiles[author].real_name,
                                        Profiles[author].display_name}
            /\ run[r].reactor = "null" => run[r].reactorName = <<"<@", run[r].user, ">">>
            /\ run[r].reactor = "ok" =>
                 run[r].reactorName \in {Profiles[run[r].user].real_name,
                                         Profiles[run[r].user].display_name}
            /\ run[r].link = "null" => ~Contains(content, <<"Slack link: ">>)
            /\ run[r].link = "ok" =>
                 Contains(content, <<"Slack link: ">> \o PermalinkOf(run[r].channel, run[r].ts))
            /\ Contains(content, <<"Author: ">> \o run[r].authorName \o <<"\n">>)
            /\ Contains(content, <<"Approved by: ">> \o run[r].reactorName \o <<"\n">>)

\* all three lookups failed and the note was still submitted
C10_Witness ==
  \E r \in Runs :
    /\ run[r].noteReq # <<>>
    /\ Messages[run[r].channel][run[r].msgTs].user # ""
    /\ run[r].author = "null" /\ run[r].reactor = "null" /\ run[r].link = "null"

IsDownload(e) == e.op = "download"

\* C11: with attachment upload enabled, the loop attempts the download of
\* every file of the message exactly once and in message order, an upload
\* follows exactly the successful downloads, a failed download or upload
\* moves on to the next file, and the note POST is issued after the loop:
\* a run that found a message never ends without it.
C11_AttachmentLoop ==
  \A r \in Runs :
    LET a == run[r].attempts
        downloads == SelectSeq(a, IsDownload)
    IN /\ \A k \in 1..Len(downloads) : downloads[k].file = k
       /\ \A k \in 1..Len(a) :
            /\ a[k].op = "upload" =>
                 (k > 1 /\ a[k - 1] = [file |-> a[k].file, op |-> "download", ok |-> TRUE])
            /\ (a[k].op = "download" /\ a[k].ok /\ k < Len(a)) =>
                 a[k + 1] = [file |-> a[k].file, op |-> "upload", ok |-> a[k + 1].ok]
       /\ run[r].pc \in {"download", "upload"} =>
            /\ Count(run[r].calls, "pdPost:notes") = 0
            /\ Count(run[r].calls, "downloadFile") = run[r].fileIdx
       /\ (cfg.REACTION_UPLOAD_FILES /\ run[r].noteReq # <<>>) =>
            /\ Len(downloads) = Len(MsgOf(run[r]).files)
            /\ Count(run[r].calls, "downloadFile") = Len(MsgOf(run[r]).files)
            /\ a # <<>> => (a[Len(a)].op = "download" => ~a[Len(a)].ok)
            /\ run[r].calls[Len(run[r].calls)] = "pdPost:notes"
       /\ (run[r].histRes = "found" /\ run[r].pc \in {"react", "reply", "done"})
            => Count(run[r].calls, "pdPost:notes") = 1

\* the first file's download failed, the second file's upload failed, and
\* the note was submitted
C11_Witness ==
  \E r \in Runs :
    /\ run[r].noteReq # <<>>
    /\ run[r].attempts = << [file |-> 1, op |-> "download", ok |-> FALSE],
                            [file |-> 2, op |-> "download", ok |-> TRUE],
                            [file |-> 2, op |-> "upload", ok |-> FALSE] >>

\* C12: at the end of a run, every temp file the run created by a successful
\* download has had its removal attempted.
C12_TempFilesRemoved ==
  \A r \in Runs :
    run[r].pc = "done" =>
      \A k \in 1..Len(run[r].attempts) :
        (run[r].attempts[k].op = "download" /\ run[r].attempts[k].ok)
          => run[r].attempts[k].file \in run[r].unlinkTried

\* the recon channels whose name carries no deal identifier
UnnumberedReconChannels == {"J2"}
CrmCalls == {"pdGetDeal", "pdUpdateDeal", "pdGet:deals"}
NoCrmCall(calls) == \A k \in 1..Len(calls) : calls[k] \notin CrmCalls

\* C13 (as stated): when the bot joins a recon channel whose name has no deal
\* identifier, the join flow posts no message into the channel and makes no
\* CRM call.
C13_SilentSkipOnJoin ==
  (join.entry = "event" /\ join.channel \in UnnumberedReconChannels) =>
    (join.posts = <<>> /\ NoCrmCall(join.calls))

\* C13 (amended): on such a channel neither join flow makes a CRM call; the
\* second program's flow (handleBotJoinedChannel) joins, looks the channel up,
\* invites the baseline users and returns without posting; the first
\* program's flow (startReconChannel) posts exactly one message, the deal###
\* warning, and issues nothing else after the channel lookup.
C13_MissingDealOnJoin ==
  (join.entry = "event" /\ join.channel \in UnnumberedReconChannels) =>
    /\ NoCrmCall(join.calls)
    /\ join.variant = 2 =>
         /\ join.posts = <<>>
         /\ Count(join.calls, "chat.postMessage") = 0
         /\ join.pc \in {"join", "info", "invite", "done"}
         /\ join.exit = "no_deal" =>
              join.calls = <<"conversations.join", "conversations.info",
                             "conversations.invite">>
    /\ (join.variant = 1 /\ join.name # <<>>) =>
         /\ join.pc \in {"warn", "done"}
         /\ join.posts = <<"need_deal">>
         /\ join.calls = <<"conversations.info", "chat.postMessage">>

\* the second program's flow skipped such a channel after the baseline invite
C13_Witness ==
  /\ join.entry = "event" /\ join.channel \in UnnumberedReconChannels
  /\ join.variant = 2 /\ join.pc = "done" /\ join.exit = "no_deal"

\* the positions of a handler run: before the event, at one of its awaits,
\* or returned
HandlerPositions ==
  {"idle", "info", "hist", "lookups", "download", "upload", "note", "react",
   "reply", "done"}

\* C14: an exception in a handler run ends in the handler's catch: the run
\* returns normally (it is never left outside the handler's positions, and a
\* run that met a failed call or an exception is replying or has returned),
\* the dedupe map holds exactly the marks of the runs whose note POST
\* succeeded, and the next event is still accepted.
C14_Swallowed ==
  /\ \A r \in Runs :
       /\ run[r].pc \in HandlerPositions
       /\ (run[r].infoRes = "fail" \/ run[r].histRes = "fail"
             \/ run[r].noteRes \in {"throw", "nosuccess"})
            => run[r].pc \in {"reply", "done"} /\ ~Marked(r)
       /\ run[r].exit = "caught" =>
            /\ run[r].pc = "done" /\ ~Marked(r)
            /\ Count(run[r].calls, "pdPost:notes") = 0
            /\ run[r].replies = <<>>
       /\ (run[r].pc = "idle" /\ \A q \in Runs : q < r => run[q].pc = "done")
            => ENABLED ReactionAdded(r, "white_check_mark", "C1", 1, "U2")
  /\ \A k \in DOMAIN noteDedupe :
       \E r \in Runs : /\ Marked(r) /\ run[r].noteRes = "success"
                       /\ k = cacheKey(run[r].channel, run[r].ts)
                       /\ noteDedupe[k] = run[r].markT

\* after a run ended in the handler's catch, the next event on the same
\* message was processed to a submitted note
C14_Witness ==
  \E r1, r2 \in Runs :
    /\ r1 < r2 /\ SameKey(r1, r2)
    /\ run[r1].exit = "caught" /\ run[r1].histRes = "found"
    /\ Marked(r2) /\ run[r2].pc = "done"

\* C15: within one run the channel lookup, the history lookup and the note
\* POST are issued at most once, each attachment's download and upload is
\* attempted at most once, and a failure of the channel lookup, of the
\* history lookup or of the note POST is followed by the failure reply only:
\* the run issues no further call and returns.
C15_NoRetries ==
  \A r \in Runs :
    LET a == run[r].attempts
        calls == run[r].calls
    IN /\ Count(calls, "conversations.info") <= 1
       /\ Count(calls, "conversations.history") <= 1
       /\ Count(calls, "pdPost:notes") <= 1
       /\ \A j, k \in 1..Len(a) : (a[j].file = a[k].file /\ a[j].op = a[k].op) => j = k
       /\ Count(calls, "downloadFile") <= Len(SelectSeq(a, IsDownload)) + 1
       /\ Count(calls, "uploadFileToPipedrive") <= Count(calls, "downloadFile")
       /\ run[r].infoRes = "fail" =>
            /\ calls = <<"conversations.info", "chat.postMessage">>
            /\ run[r].pc \in {"reply", "done"}
       /\ run[r].histRes = "fail" =>
            /\ calls = <<"conversations.info", "conversations.history", "chat.postMessage">>
            /\ run[r].pc \in {"reply", "done"}
       /\ run[r].noteRes \in {"throw", "nosuccess"} =>
            /\ calls[Len(calls)] = "chat.postMessage"
            /\ calls[Len(calls) - 1] = "pdPost:notes"
            /\ Count(calls, "chat.postMessage") = 1
            /\ run[r].pc \in {"reply", "done"}

\* one run ended on a failed channel lookup; another saw a download fail, an
\* upload fail and the note POST throw, and ended
C15_Witness ==
  \E r1, r2 \in Runs :
    /\ run[r1].infoRes = "fail" /\ run[r1].pc = "done"
    /\ run[r2].noteRes = "throw" /\ run[r2].pc = "done"
    /\ \E j, k \in 1..Len(run[r2].attempts) :
         /\ run[r2].attempts[j].op = "download" /\ ~run[r2].attempts[j].ok
         /\ run[r2].attempts[k].op = "upload" /\ ~run[r2].attempts[k].ok

\* the marks written for r's key by the runs delivered before r
EarlierMarks(r) == {run[q].markT : q \in {q \in Runs : q < r /\ SameKey(q, r) /\ Marked(q)}}
LatestEarlierMark(r) == CHOOSE m \in EarlierMarks(r) : \A n \in EarlierMarks(r) : n <= m

\* C16: no entry ever leaves the dedupe map (the key of every run that marked
\* stays in it, holding that mark or a later one); an accepted reaction that
\* arrives after all earlier runs on its message have returned is suppressed
\* when the latest mark is less than 5 minutes old, and goes on to the channel
\* lookup when 5 minutes or more have passed.
C16_DedupeWindow ==
  \A r \in Runs :
    /\ Marked(r) =>
         /\ cacheKey(run[r].channel, run[r].ts) \in DOMAIN noteDedupe
         /\ noteDedupe[cacheKey(run[r].channel, run[r].ts)] >= run[r].markT
    /\ (Started(r) /\ run[r].checkmark /\ run[r].alone /\ EarlierMarks(r) # {}) =>
         IF run[r].startT - LatestEarlierMark(r) < WINDOW_MS
         THEN run[r].exit = "dedupe" /\ run[r].calls = <<>>
         ELSE /\ run[r].exit # "dedupe"
              /\ run[r].calls # <<>> /\ run[r].calls[1] = "conversations.info"

\* a reaction that arrived exactly 5 minutes after the mark submitted a
\* second note
C16_Witness ==
  \E r1, r2 \in Runs :
    /\ r1 < r2 /\ SameKey(r1, r2) /\ Marked(r1) /\ Marked(r2) /\ run[r2].alone
    /\ run[r2].startT - run[r1].markT = WINDOW_MS

\* the digit run of the first "deal" + digits of a name assembled from parts,
\* or none
DealWords == { <<"d","e","a","l">>, <<"D","e","a","l">>, <<"D","E","A","L">> }
ExpectedDealId(parts) ==
  IF parts.word \in DealWords /\ parts.digits # <<>> THEN parts.digits
  ELSE IF parts.suf = <<"-","d","e","a","l","9">> THEN <<"9">>
  ELSE <<>>

\* C17: both definitions of extractDealIdFromChannelName return the digit run
\* of the first "deal" (any case) followed by digits, whatever follows the
\* digits, and none for a name without one.
C17_ExtractDealId ==
  (pure.fn = "extractDealIdFromChannelName" /\ pure.applied)
    => pure.out = ExpectedDealId(pure.parts)

\* the first non-empty name of a list of candidates, or the fallback
RECURSIVE FirstPresent(_, _)
FirstPresent(names, fallback) ==
  IF names = <<>> THEN fallback
  ELSE IF Head(names) # <<>> THEN Head(names)
  ELSE FirstPresent(Tail(names), fallback)

NameChosen == pure.fn = "displayName" /\ pure.applied

\* C18 (as stated): the name used for the author and for the reactor is the
\* first present of normalized real name, real name, display name and handle,
\* and "User <id>" when the lookup failed or all four are absent.
C18_NamePrecedence ==
  NameChosen =>
    pure.out = IF pure.info.found
               THEN FirstPresent(<< pure.info.real_name_normalized, pure.info.real_name,
                                    pure.info.display_name, pure.info.name >>,
                                 <<"User ", pure.user>>)
               ELSE <<"User ", pure.user>>

\* C18 (amended): the name used is the real name when present, otherwise the
\* display name when present, otherwise the mention "<@id>" of the user (of
\* the reactor always; of the author when the message has one, and "unknown"
\* when it has none); the normalized real name and the handle are never used,
\* and a failed lookup gives the same fallback.
C18_NameFallback ==
  NameChosen =>
    LET info == pure.info
        fallback == IF pure.role = "author" /\ pure.user = ""
                    THEN <<"unknown">> ELSE <<"<@", pure.user, ">">>
    IN /\ (info.found /\ info.real_name # <<>>) => pure.out = info.real_name
       /\ (info.found /\ info.real_name = <<>> /\ info.display_name # <<>>)
            => pure.out = info.display_name
       /\ (~info.found \/ (info.real_name = <<>> /\ info.display_name = <<>>))
            => pure.out = fallback

\* a name was chosen from a payload that has a normalized real name, a
\* display name and a handle but no real name
C18_Witness ==
  /\ NameChosen /\ pure.info.found
  /\ pure.info.real_name = <<>> /\ pure.info.real_name_normalized # <<>>
  /\ pure.info.display_name # <<>> /\ pure.info.name # <<>>
  /\ pure.out = pure.info.display_name

NoteBuilt == pure.fn = "buildNoteFromSlack" /\ pure.applied

\* C19: a note for a message without attachments has no Attachments block;
\* a note for a message with attachments has one block that lists every
\* attachment exactly once, in message order, each as "<name> (<type>)".
C19_AttachmentsBlock ==
  NoteBuilt =>
    LET n == Len(pure.files)
        note == pure.out
    IN IF n = 0
       THEN Count(note, "Attachments:") = 0 /\ Count(note, "- ") = 0
       ELSE /\ Count(note, "Attachments:") = 1
            /\ Count(note, "- ") = n
            /\ \E p \in 1..Len(note) :
                 /\ note[p] = "Attachments:"
                 /\ \A i \in 1..n :
                      SubSeq(note, p + 6 * (i - 1) + 1, p + 6 * i)
                        = << "\n", "- ", pure.files[i].name[1], " (",
                             pure.files[i].filetype[1], ")" >>

\* a note was built for a message with three attachments, two of them alike
C19_Witness ==
  /\ NoteBuilt /\ Len(pure.files) = 3
  /\ Contains(pure.out, <<"- ", "b.png", " (", "png", ")", "\n", "- ", "a.pdf">>)

\* the text between "Message:\n" and the Attachments block or the link line
MessagePart ==
  LET note == pure.out
      n == Len(pure.files)
      tail == (IF n > 0 THEN 3 + 6 * n ELSE 0)
              + (IF pure.permalink # <<>> THEN 3 + Len(pure.permalink) ELSE 0)
      p == CHOOSE i \in 1..Len(note) : note[i] = "Message:"
  IN SubSeq(note, p + 2, Len(note) - tail)

Whitespace == {" ", "\n"}

DecodeEntities(t) ==
  [i \in 1..Len(t) |->
     CASE t[i] = "&amp;" -> "&" [] t[i] = "&lt;" -> "<" [] t[i] = "&gt;" -> ">"
       [] OTHER -> t[i]]

RECURSIVE StripBeforeNewline(_)
StripBeforeNewline(t) ==
  IF Len(t) < 2 THEN t
  ELSE LET rest == StripBeforeNewline(Tail(t))
       IN IF Head(t) = " " /\ Head(rest) = "\n" THEN rest ELSE <<Head(t)>> \o rest

RECURSIVE CollapseNewlines(_)
CollapseNewlines(t) ==
  IF Len(t) < 3 THEN t
  ELSE IF t[1] = "\n" /\ t[2] = "\n" /\ t[3] = "\n" THEN CollapseNewlines(Tail(t))
  ELSE <<Head(t)>> \o CollapseNewlines(Tail(t))

RECURSIVE Trim(_)
Trim(t) ==
  IF t = <<>> THEN t
  ELSE IF Head(t) \in Whitespace THEN Trim(Tail(t))
  ELSE IF t[Len(t)] \in Whitespace THEN Trim(SubSeq(t, 1, Len(t) - 1))
  ELSE t

\* the text the note would embed after the four transformations
TransformedText(t) == Trim(CollapseNewlines(StripBeforeNewline(DecodeEntities(t))))

C21_BotOnlyJoin ==
  (join.entry = "event" /\ (join.bot = None \/ join.user # join.bot)) =>
    /\ join.calls = <<>> /\ join.posts = <<>>
    /\ join.pc = "done" /\ join.exit = "not_bot"

\* the second program's handler returned on a join event of the bot's own
\* user id that it received while BOT_USER_ID was null
C21_Witness ==
  /\ join.entry = "event" /\ join.variant = 2 /\ join.bot = None /\ join.user = "B"
  /\ join.pc = "done" /\ join.calls = <<>>

\* C22: a step adds a key to the dedupe map, or changes the time stored under
\* a key, only when a run on that key receives a success payload from the
\* note POST in that step (and the time stored is the time of that step); no
\* other exit of the handler touches the map.
C22_MarkOnlyOnSuccess ==
  [][\A k \in DOMAIN noteDedupe' :
       (k \notin DOMAIN noteDedupe \/ noteDedupe'[k] # noteDedupe[k]) =>
         \E r \in Runs :
           /\ run[r].pc = "note" /\ run'[r].noteRes = "success"
           /\ k = cacheKey(run[r].channel, run[r].ts)
           /\ noteDedupe'[k] = now]_vars

\* one run marked a key; another run on the same key went through a failed
\* attachment and a failed submission, and the map still holds the first mark
C22_Witness ==
  \E r1, r2 \in Runs :
    /\ r1 # r2 /\ SameKey(r1, r2) /\ Marked(r1)
    /\ run[r2].pc = "done" /\ run[r2].noteRes \in {"throw", "nosuccess"}
    /\ \E k \in 1..Len(run[r2].attempts) : ~run[r2].attempts[k].ok
    /\ noteDedupe[cacheKey(run[r1].channel, run[r1].ts)] = run[r1].markT

\* C23: a handler run posts at most one thread reply and issues at most one
\* note POST; a run that posted the success reply received a success payload
\* from its note POST and had written the dedupe entry of its key before the
\* reply was issued.
C23_OneReplyOnePost ==
  \A r \in Runs :
    LET calls == run[r].calls
        sent == {k \in 1..Len(calls) : calls[k] = "chat.postMessage"}
    IN /\ Len(run[r].replies) <= 1
       /\ Cardinality(sent) = Len(run[r].replies)
       /\ Count(calls, "pdPost:notes") <= 1
       /\ \A k \in 1..Len(run[r].replies) :
            run[r].replies[k].kind = "sent" =>
              /\ run[r].noteRes = "success"
              /\ Marked(r)
              /\ cacheKey(run[r].channel, run[r].ts) \in DOMAIN noteDedupe
              /\ noteDedupe[cacheKey(run[r].channel, run[r].ts)] >= run[r].markT
              /\ \E p \in 1..Len(calls) :
                   /\ calls[p] = "pdPost:notes"
                   /\ \A q \in sent : p < q

\* a run posted the success reply after its mark and returned
C23_Witness ==
  \E r \in Runs :
    /\ run[r].replies # <<>> /\ run[r].replies[1].kind = "sent"
    /\ run[r].pc = "done" /\ Marked(r)

\* C24: with the attachment upload enabled, every download and every CRM
\* upload of a run is issued and settled before the run's note POST is issued;
\* the uploads are not covered by the dedupe mark: when a run's submission
\* failed and no run has marked the key, a later run on the same message has,
\* by the time it submits, again attempted the download of every file and the
\* upload of every file it downloaded.
C24_UploadsBeforeNote ==
  \A r \in Runs :
    LET calls == run[r].calls
        a == run[r].attempts
        transfers == {k \in 1..Len(calls) :
                        calls[k] \in {"downloadFile", "uploadFileToPipedrive"}}
    IN /\ \A p \in 1..Len(calls) :
            calls[p] = "pdPost:notes" =>
              /\ \A k \in transfers : k < p
              /\ Cardinality(transfers) = Len(a)
       /\ run[r].pc = "note" =>
            \A r1 \in Runs :
              (/\ r1 < r /\ SameKey(r1, r)
               /\ run[r1].noteRes \in {"throw", "nosuccess"} /\ NeverMarked(r))
                => /\ Len(SelectSeq(a, IsDownload)) = Len(MsgOf(run[r]).files)
                   /\ \A k \in 1..Len(a) :
                        (a[k].op = "download" /\ a[k].ok) =>
                          (k < Len(a) /\ a[k + 1].op = "upload"
                             /\ a[k + 1].file = a[k].file)

\* a run uploaded the first file and its submission failed; a later run on
\* the same message uploaded the first file again and is submitting
C24_Witness ==
  \E r1, r2 \in Runs :
    /\ r1 < r2 /\ SameKey(r1, r2)
    /\ run[r1].noteRes \in {"throw", "nosuccess"}
    /\ [file |-> 1, op |-> "upload", ok |-> TRUE] \in
         {run[r1].attempts[k] : k \in 1..Len(run[r1].attempts)}
    /\ [file |-> 1, op |-> "upload", ok |-> TRUE] \in
         {run[r2].attempts[k] : k \in 1..Len(run[r2].attempts)}
    /\ run[r2].pc = "note"

\* the channels the first program takes for recon channels ("rcn-" prefix)
\* whose name has "deal" followed by digits
NumberedReconChannels == {"J1", "J5"}

\* C25: when the first program's start workflow runs (on the bot's join or on
\* /recon-start) for a recon channel whose name carries a deal id, the
\* baseline invite is issued after a join attempt, the final "Recon started"
\* message is posted whatever failed in between, and the Slack-URL writeback
\* is issued only after a permalink was obtained.
C25_StartWorkflow ==
  (join.variant = 1 /\ join.channel \in NumberedReconChannels /\ join.name # <<>>) =>
    LET calls == join.calls
    IN /\ \A k \in 1..Len(calls) :
            calls[k] = "conversations.invite" =>
              \E j \in 1..(k - 1) : calls[j] = "conversations.join"
       /\ Count(calls, "pdUpdateDeal") > 0 => join.linkRes = "ok"
       /\ join.pc = "done" =>
            /\ Count(calls, "conversations.join") = 1
            /\ Count(calls, "conversations.invite") >= 1
            /\ Count(join.posts, "recon_started") = 1
            /\ join.posts[Len(join.posts)] = "recon_started"
====
